---- MODULE Spec2Model ----
(***************************************************************************)
(* Model of mantis_openioc_importer/importer.py (class OpenIOC_Import).    *)
(*                                                                         *)
(* Spec       : one application of one of the hooks the class hands to the *)
(*              generic importer (transformer, cybox_embedding_pred,       *)
(*              attr_ignore_predicate, datatype_extractor,                 *)
(*              id_and_revision_extractor, the fact handler list).         *)
(* SpecImport : sequences of xml_import calls on one instance.             *)
(*                                                                         *)
(* Python values are tagged records: [t |-> "str", v |-> ...],             *)
(* [t |-> "bool", v |-> ...], [t |-> "None"], [t |-> "dict", d |-> f],     *)
(* [t |-> "raise", exc |-> ...] for an exception leaving the function.     *)
(* Strings the code takes apart (the search path, attribute keys) are      *)
(* sequences of one-character strings.                                     *)
(***************************************************************************)
EXTENDS Integers, Sequences, FiniteSets, TLC

VARIABLES
    hook,            \* name of the hook that ran ("idle" before)
    arg,             \* the arguments it ran on
    ret,             \* what it returned or raised
    contents_after,  \* the contents dictionary handed to transformer, as it
                     \* is once transformer has run
    add_fact_kargs,  \* the fact-construction arguments after the hook ran
    identifiers,     \* Identifier rows of the store: <<namespace uri, uid>>
    iobjects,        \* InfoObject rows of the store: <<namespace uri, uid, timestamp>>
    self,            \* the fields of the OpenIOC_Import instance
    now,             \* the clock timezone.now() reads
    pc,              \* where the instance is: "idle", or in xml_import at "loop",
                     \* "done" (returning) or "raised" (an exception leaving it)
    call,            \* arguments of the current xml_import call and what the
                     \* generic importer returned to it
    pending_stack,   \* its pending_stack
    idx,             \* position of the loop over pending_stack
    ts,              \* its ts
    calls,           \* the create_iobject calls it has made, in order
    exc,             \* the failure that ended it, or None
    ncalls,          \* number of xml_import calls started on the instance
    prev             \* what the previous xml_import call was given and used

hookvars == <<hook, arg, ret, contents_after, add_fact_kargs, identifiers, iobjects>>
importvars == <<now, pc, call, pending_stack, idx, ts, calls, exc, ncalls, prev>>
vars == <<hookvars, self, importvars>>

----------------------------------------------------------------------------
(* Bounds *)

\* longest Context/@search string enumerated
MaxLen == 7
\* most children of an IndicatorItem enumerated
MaxChildren == 3
\* longest attribute key enumerated for attr_ignore_predicate
MaxKeyLen == 3
\* most embedded objects the generic importer returns
MaxEmbedded == 2
\* most xml_import calls on one instance
MaxCalls == 2
\* latest reading of the clock
MaxNow == 2

----------------------------------------------------------------------------
(* Python values *)

PyNone == [t |-> "None"]
PyStr(s) == [t |-> "str", v |-> s]
PyBool(b) == [t |-> "bool", v |-> b]
PyDict(f) == [t |-> "dict", d |-> f]
PyRaise(e) == [t |-> "raise", exc |-> e]

EmptyMap == [k \in {} |-> PyNone]
EmptyDict == PyDict(EmptyMap)

IsRaise(x) == x.t = "raise"

\* Python truthiness of the values the hooks test with `if x:`
Truthy(x) ==
    CASE x.t = "None" -> FALSE
      [] x.t = "bool" -> x.v
      [] x.t = "str" -> x.v # ""
      [] x.t = "list" -> x.v # <<>>
      [] OTHER -> TRUE

\* d[k] = v on a mapping
MapSet(f, k, v) == [x \in (DOMAIN f) \cup {k} |-> IF x = k THEN v ELSE f[x]]

----------------------------------------------------------------------------
(* Character strings *)

Slash == "/"
SearchAlphabet == {"a", "b", Slash}

RECURSIVE StringsUpTo(_, _)
StringsUpTo(alphabet, n) ==
    IF n = 0 THEN {<<>>}
    ELSE LET shorter == StringsUpTo(alphabet, n - 1)
         IN  shorter \cup {Append(s, c) : s \in {x \in shorter : Len(x) = n - 1}, c \in alphabet}

\* index of the first occurrence of c in s, 0 when there is none
FirstIndex(s, c) ==
    IF \E i \in 1..Len(s) : s[i] = c
    THEN CHOOSE i \in 1..Len(s) : s[i] = c /\ \A j \in 1..(i - 1) : s[j] # c
    ELSE 0

\* s.split("/", 1): at most one split, at the first separator
SplitOnce(s) ==
    LET i == FirstIndex(s, Slash)
    IN  IF i = 0 THEN <<s>>
        ELSE <<SubSeq(s, 1, i - 1), SubSeq(s, i + 1, Len(s))>>

\* s.split("/"): every separator splits; empty pieces are kept
RECURSIVE SplitAll(_)
SplitAll(s) ==
    LET i == FirstIndex(s, Slash)
    IN  IF i = 0 THEN <<s>>
        ELSE <<SubSeq(s, 1, i - 1)>> \o SplitAll(SubSeq(s, i + 1, Len(s)))

----------------------------------------------------------------------------
(* transformer *)

AtId == <<"@", "i", "d">>
AtValueType == <<"@", "v", "a", "l", "u", "e", "_", "t", "y", "p", "e">>
AtCondition == <<"@", "c", "o", "n", "d", "i", "t", "i", "o", "n">>
UValue == <<"_", "v", "a", "l", "u", "e">>

\* dingos set_dict(dictionary, value, 'set', *keys): walk or create the
\* dictionaries named by all keys but the last, then assign the last key.
\* Walking into a value that is no dictionary raises TypeError.
RECURSIVE set_dict(_, _, _)
set_dict(dictionary, value, keys) ==
    IF dictionary.t # "dict" THEN PyRaise("TypeError")
    ELSE IF Len(keys) = 1 THEN PyDict(MapSet(dictionary.d, keys[1], value))
    ELSE LET k == Head(keys)
             existing == IF k \in DOMAIN dictionary.d THEN dictionary.d[k] ELSE EmptyDict
             inner == set_dict(existing, value, Tail(keys))
         IN  IF IsRaise(inner) THEN inner
             ELSE PyDict(MapSet(dictionary.d, k, inner))

\* contents[k1][k2], KeyError when either key is absent
Lookup2(contents, k1, k2) ==
    IF k1 \notin DOMAIN contents THEN PyRaise("KeyError")
    ELSE IF k2 \notin DOMAIN contents[k1] THEN PyRaise("KeyError")
    ELSE contents[k1][k2]

Lookup1(contents, k) ==
    IF k \notin DOMAIN contents THEN PyRaise("KeyError") ELSE contents[k]

\* First raised exception of a sequence of evaluations, in evaluation order
FirstRaise(xs) ==
    IF \E i \in 1..Len(xs) : IsRaise(xs[i])
    THEN xs[CHOOSE i \in 1..Len(xs) : IsRaise(xs[i]) /\ \A j \in 1..(i - 1) : ~IsRaise(xs[j])]
    ELSE PyNone

\* A leaf whose type and condition entries are exchanged
Leaf_swapped(value_type, search_condition, search_value) ==
    PyDict((AtValueType :> search_condition) @@ (AtCondition :> value_type)
           @@ (UValue :> search_value))

Leaf(value_type, search_condition, search_value) ==
    PyDict((AtValueType :> value_type) @@ (AtCondition :> search_condition)
           @@ (UValue :> search_value))

TransformIndicatorItem(contents) ==
    LET search == Lookup2(contents, "Context", "@search")
        parts == SplitOnce(search.v)
        unpack == IF IsRaise(search) THEN search
                  ELSE IF Len(parts) # 2 THEN PyRaise("ValueError") ELSE PyNone
        search_value == Lookup2(contents, "Content", "_value")
        value_type == Lookup2(contents, "Content", "@type")
        search_condition == Lookup1(contents, "@condition")
        item_id == Lookup1(contents, "@id")
        raised == FirstRaise(<<unpack, search_value, value_type, search_condition, item_id>>)
    IN  IF IsRaise(raised) THEN raised
        ELSE LET document_type == parts[1]
                 search_term == SplitAll(parts[2])
                 result0 == PyDict(AtId :> item_id)
                 result == set_dict(result0, Leaf(value_type, search_condition, search_value),
                                    search_term)
             IN  IF IsRaise(result) THEN result
                 ELSE [t |-> "pair", name |-> PyStr(document_type), record |-> result]

transformer(elt_name, contents) ==
    IF elt_name # "IndicatorItem"
    THEN [t |-> "pair", name |-> PyStr(elt_name), record |-> contents]
    ELSE TransformIndicatorItem(contents)

\* The contents dictionaries handed to transformer: an IndicatorItem with
\* every expected entry, or with one of them missing.
Missable == {"Context", "@search", "Content", "_value", "@type", "@condition", "@id"}

Drop(f, k) == [x \in (DOMAIN f) \ {k} |-> f[x]]

FullContents(search, i) ==
    ("Context" :> ("@search" :> PyStr(search)))
    @@ ("Content" :> (("_value" :> PyStr(".stub")) @@ ("@type" :> PyStr("string"))))
    @@ ("@condition" :> PyStr("contains"))
    @@ ("@id" :> PyStr(i))

Without(c, m) ==
    CASE m = "none" -> c
      [] m \in {"Context", "Content", "@condition", "@id"} -> Drop(c, m)
      [] m = "@search" -> [c EXCEPT !["Context"] = Drop(@, m)]
      [] OTHER -> [c EXCEPT !["Content"] = Drop(@, m)]

ItemIds == {"id1"}

\* search paths one of whose segments is the reserved key '@id'
ReservedKeyPaths ==
    {<<"a", Slash>> \o AtId,
     <<"a", Slash>> \o AtId \o <<Slash, "b">>,
     <<"a", Slash, "b", Slash>> \o AtId}

SearchPaths == StringsUpTo(SearchAlphabet, MaxLen) \cup ReservedKeyPaths

ItemContents ==
    {Without(FullContents(s, i), m) :
        s \in SearchPaths, i \in ItemIds, m \in Missable \cup {"none"}}

\* The contents dictionary after a transformer that takes the Context entry
\* out of the dictionary it was handed (pop) instead of reading it
ContentsAfter_pop(elt_name, passed) ==
    IF elt_name = "IndicatorItem" /\ "Context" \in DOMAIN passed
    THEN Drop(passed, "Context")
    ELSE passed

\* The contents dictionary after transformer(elt_name, passed) has run.
\* Lines 219-234 only read it; every assignment goes to result or leaf, both
\* created empty at lines 203 and 214. set_dict writes to result and to the
\* dictionaries it reaches from result by the keys of search_term, and the
\* one object of the passed dictionary that result holds is item_id under
\* '@id': were that a dictionary and '@id' the first key of a longer
\* search_term, set_dict would walk into it and write there. With '@id' the
\* only key, set_dict binds result['@id'] anew and the object stays as it is.
ContentsAfter(elt_name, passed) ==
    LET r == transformer(elt_name, passed)
        search_term == SplitAll(SplitOnce(passed["Context"]["@search"].v)[2])
    IN  IF /\ elt_name = "IndicatorItem"
           /\ r.t = "pair"
           /\ passed["@id"].t = "dict"
           /\ Len(search_term) > 1
           /\ search_term[1] = AtId
        THEN [passed EXCEPT !["@id"] = r.record.d[AtId]]
        ELSE passed

\* names of elements other than 'IndicatorItem'
OtherNames == {"Indicator", "indicatoritem", "Context"}

OtherContents ==
    {("@id" :> PyStr("id1")), EmptyMap, FullContents(<<"a", Slash, "b">>, "id1")}

Transformer ==
    /\ hook = "idle"
    /\ \E elt_name \in {"IndicatorItem"} \cup OtherNames :
       \E passed \in (IF elt_name = "IndicatorItem" THEN ItemContents ELSE OtherContents) :
          /\ hook' = "transformer"
          /\ arg' = [elt_name |-> elt_name, contents |-> passed]
          /\ ret' = transformer(elt_name, passed)
          /\ contents_after' = ContentsAfter(elt_name, passed)
    /\ UNCHANGED <<add_fact_kargs, identifiers, iobjects, self, importvars>>

----------------------------------------------------------------------------
(* cybox_embedding_pred *)

\* dingos extract_attributes(element, prefix_key_char): the element's
\* attributes, each key prefixed; a key is the pair <<prefix, name>>
extract_attributes(element, prefix_key_char) ==
    [k \in {<<prefix_key_char, n>> : n \in DOMAIN element.attrs} |-> element.attrs[k[2]]]

\* A scan that does not stop at the first Context: the last one decides
RECURSIVE ScanContext_nobreak(_, _)
ScanContext_nobreak(children, type_info) ==
    IF children = <<>> THEN type_info
    ELSE LET grandchild == Head(children)
             context_attributes == extract_attributes(grandchild, "")
         IN  IF grandchild.name = "Context" /\ <<"", "document">> \in DOMAIN context_attributes
             THEN ScanContext_nobreak(Tail(children), context_attributes[<<"", "document">>])
             ELSE ScanContext_nobreak(Tail(children), type_info)

\* the while loop over child.children / grandchild.next
RECURSIVE ScanContext(_, _)
ScanContext(children, type_info) ==
    IF children = <<>> THEN type_info
    ELSE LET grandchild == Head(children)
             context_attributes == extract_attributes(grandchild, "")
         IN  IF grandchild.name = "Context"
             THEN IF <<"", "document">> \in DOMAIN context_attributes
                  THEN context_attributes[<<"", "document">>]
                  ELSE type_info
             ELSE ScanContext(Tail(children), type_info)

cybox_embedding_pred(parent, child, ns_mapping) ==
    LET child_attributes == extract_attributes(child, "")
    IN  IF <<"", "id">> \in DOMAIN child_attributes /\ child.name = "IndicatorItem"
        THEN LET type_info == ScanContext(child.children, PyNone)
             IN  IF Truthy(type_info) THEN type_info ELSE PyBool(TRUE)
        ELSE PyBool(FALSE)

DocumentValues == {"", "FileItem", "RegistryItem"}

GrandChildren ==
    {[name |-> n, attrs |-> a] :
        n \in {"Context", "Content"},
        a \in {EmptyMap} \cup {("document" :> PyStr(dv)) : dv \in DocumentValues}}

RECURSIVE SeqsUpTo(_, _)
SeqsUpTo(S, n) ==
    IF n = 0 THEN {<<>>}
    ELSE LET shorter == SeqsUpTo(S, n - 1)
         IN  shorter \cup {Append(s, c) : s \in {x \in shorter : Len(x) = n - 1}, c \in S}

Children ==
    {[name |-> n, attrs |-> a, children |-> cs] :
        n \in {"IndicatorItem", "Indicator"},
        a \in {EmptyMap, ("id" :> PyStr("id1"))},
        cs \in SeqsUpTo(GrandChildren, MaxChildren)}

CyboxEmbeddingPred ==
    /\ hook = "idle"
    /\ \E child \in Children :
          /\ hook' = "cybox_embedding_pred"
          /\ arg' = [child |-> child]
          /\ ret' = cybox_embedding_pred(PyNone, child, EmptyMap)
    /\ UNCHANGED <<contents_after, add_fact_kargs, identifiers, iobjects, self, importvars>>

----------------------------------------------------------------------------
(* attr_ignore_predicate *)

At == "@"
s_idref == <<"i", "d", "r", "e", "f">>
s_id == <<"i", "d">>
s_value_type == <<"v", "a", "l", "u", "e", "_", "t", "y", "p", "e">>
s_condition == <<"c", "o", "n", "d", "i", "t", "i", "o", "n">>

\* c in s
Contains(s, c) == \E i \in 1..Len(s) : s[i] = c

attr_ignore_predicate(fact_dict) ==
    IF Contains(fact_dict.attribute, At) THEN PyBool(TRUE)
    ELSE IF fact_dict.attribute \in {s_idref, s_id, s_value_type} THEN PyBool(TRUE)
    ELSE PyBool(FALSE)

AttributeKeys ==
    StringsUpTo({At, "i", "d"}, MaxKeyLen) \cup {s_idref, s_value_type, s_condition}

AttrIgnorePredicate ==
    /\ hook = "idle"
    /\ \E key \in AttributeKeys :
          /\ hook' = "attr_ignore_predicate"
          /\ arg' = [fact_dict |-> [attribute |-> key]]
          /\ ret' = attr_ignore_predicate([attribute |-> key])
    /\ UNCHANGED <<contents_after, add_fact_kargs, identifiers, iobjects, self, importvars>>

----------------------------------------------------------------------------
(* datatype_extractor *)

\* FactDataType.REFERENCE and the kind the generic importer starts from
REFERENCE == [t |-> "FactDataType", v |-> "REFERENCE"]
NO_VOCAB == [t |-> "FactDataType", v |-> "NO_VOCAB"]

\* attr_info.get(k, None)
Get(f, k) == IF k \in DOMAIN f THEN f[k] ELSE PyNone

\* the two branches tested in the opposite order
datatype_extractor_value_type_first(iobject, fact, attr_info, namespace_mapping, kargs) ==
    IF "value_type" \in DOMAIN attr_info
    THEN [ret |-> PyBool(TRUE),
          kargs |-> MapSet(MapSet(kargs, "fact_dt_name", attr_info["value_type"]),
                           "fact_dt_namespace_uri", namespace_mapping[PyNone])]
    ELSE IF "idref" \in DOMAIN attr_info
    THEN LET embedded_type_info == Get(attr_info, "@embedded_type_info")
         IN  [ret |-> PyBool(TRUE),
              kargs |-> IF Truthy(embedded_type_info)
                        THEN MapSet(MapSet(MapSet(kargs,
                                 "fact_dt_name", embedded_type_info),
                                 "fact_dt_namespace_uri", namespace_mapping[PyNone]),
                                 "fact_dt_kind", REFERENCE)
                        ELSE kargs]
    ELSE [ret |-> PyBool(FALSE), kargs |-> kargs]

\* returns the value returned and add_fact_kargs as the call leaves it
datatype_extractor(iobject, fact, attr_info, namespace_mapping, kargs) ==
    IF "idref" \in DOMAIN attr_info
    THEN LET embedded_type_info == Get(attr_info, "@embedded_type_info")
         IN  [ret |-> PyBool(TRUE),
              kargs |-> IF Truthy(embedded_type_info)
                        THEN MapSet(MapSet(MapSet(kargs,
                                 "fact_dt_name", embedded_type_info),
                                 "fact_dt_namespace_uri", namespace_mapping[PyNone]),
                                 "fact_dt_kind", REFERENCE)
                        ELSE kargs]
    ELSE IF "value_type" \in DOMAIN attr_info
    THEN [ret |-> PyBool(TRUE),
          kargs |-> MapSet(MapSet(kargs, "fact_dt_name", attr_info["value_type"]),
                           "fact_dt_namespace_uri", namespace_mapping[PyNone])]
    ELSE [ret |-> PyBool(FALSE), kargs |-> kargs]

\* the arguments the generic importer has prepared for a fact
KargsPresets ==
    {("fact_dt_kind" :> NO_VOCAB) @@ ("fact_dt_name" :> PyStr(n))
     @@ ("fact_dt_namespace_uri" :> PyStr("http://dingos/datatypes"))
     @@ ("fact_term_name" :> PyStr("PEInfo/Name")) : n \in {"String", "FileItem"}}

\* a mapping that has the key k, with one of the values, or has it not
OptionalEntry(k, values) == {EmptyMap} \cup {(k :> v) : v \in values}

TypeAttrInfos ==
    {a @@ b @@ c @@ d :
        a \in OptionalEntry("idref", {PyStr("id1")}),
        b \in OptionalEntry("value_type", {PyStr("string")}),
        c \in OptionalEntry("@embedded_type_info", {PyStr("FileItem"), PyStr("")}),
        d \in OptionalEntry("condition", {PyStr("contains")})}

NamespaceMappings == {(PyNone :> PyStr(u)) : u \in {"http://dingos/ns", "http://other/ns"}}

DatatypeExtractor ==
    /\ hook = "idle"
    /\ \E attr_info \in TypeAttrInfos, namespace_mapping \in NamespaceMappings,
          kargs \in KargsPresets :
          LET r == datatype_extractor(PyNone, PyNone, attr_info, namespace_mapping, kargs)
          IN  /\ hook' = "datatype_extractor"
              /\ arg' = [attr_info |-> attr_info, namespace_mapping |-> namespace_mapping,
                         add_fact_kargs |-> kargs]
              /\ ret' = r.ret
              /\ add_fact_kargs' = r.kargs
    /\ UNCHANGED <<contents_after, identifiers, iobjects, self, importvars>>

----------------------------------------------------------------------------
(* id_and_revision_extractor *)

DigitVal(c) ==
    CASE c = "0" -> 0 [] c = "1" -> 1 [] c = "2" -> 2 [] c = "3" -> 3 [] c = "4" -> 4
      [] c = "5" -> 5 [] c = "6" -> 6 [] c = "7" -> 7 [] c = "8" -> 8 [] OTHER -> 9

IsDigit(c) == c \in {"0", "1", "2", "3", "4", "5", "6", "7", "8", "9"}

TwoDigits(s, i) == 10 * DigitVal(s[i]) + DigitVal(s[i + 1])

\* The package does not say which Django release it runs on, and the
\* designator group of the datetime pattern differs between them:
\*   "1.4" (1.4 to 1.7):  (Z|[+-]\d{2}:?\d{2})?$
\*   "1.8" (1.8 and on):  (Z|[+-]\d{2}(?::?\d{2})?)?$
DjangoReleases == {"1.4", "1.8"}

Newline == "\n"

\* the $ of the pattern matches at the end of the string and before a
\* newline that ends it
StripNewline(z) ==
    IF Len(z) > 0 /\ z[Len(z)] = Newline THEN SubSeq(z, 1, Len(z) - 1) ELSE z

\* the designator group: nothing, Z, [+-]dddd, [+-]dd:dd and, from 1.8 on,
\* [+-]dd
DesignatorGroup(g, release) ==
    \/ g = <<>>
    \/ g = <<"Z">>
    \/ /\ Len(g) \in (IF release = "1.8" THEN {3, 5, 6} ELSE {5, 6})
       /\ g[1] \in {"+", "-"}
       /\ IsDigit(g[2]) /\ IsDigit(g[3])
       /\ Len(g) = 5 => (IsDigit(g[4]) /\ IsDigit(g[5]))
       /\ Len(g) = 6 => (g[4] = ":" /\ IsDigit(g[5]) /\ IsDigit(g[6]))

\* z, the text after the date and time fields, lets the pattern match
TzDesignatorOk(z, release) == DesignatorGroup(StripNewline(z), release)

FixedOffset(minutes) == [t |-> "tzinfo", offset |-> minutes]
utc == FixedOffset(0)

\* the tzinfo of a matched designator group
TzInfoOf(g) ==
    IF g = <<>> THEN PyNone
    ELSE IF g = <<"Z">> THEN utc
    ELSE LET offset_mins == IF Len(g) > 3 THEN TwoDigits(g, Len(g) - 1) ELSE 0
             offset == 60 * TwoDigits(g, 2) + offset_mins
         IN  FixedOffset(IF g[1] = "-" THEN 0 - offset ELSE offset)

\* django parse_datetime on a string given by its lexical parts: the date and
\* time fields (well-formed or not, in range or not, and the instant they
\* name) and the designator that follows them.  None when the string does
\* not match the pattern, ValueError when a field is out of range.
parse_datetime(s, release) ==
    IF s.fields = "malformed" \/ ~TzDesignatorOk(s.tz, release) THEN PyNone
    ELSE IF s.fields = "out-of-range" THEN PyRaise("ValueError")
    ELSE [t |-> "datetime", instant |-> s.instant,
          tzinfo |-> TzInfoOf(StripNewline(s.tz))]

\* an aware datetime in UTC
DateTime(instant) == [t |-> "datetime", instant |-> instant, tzinfo |-> utc]

is_aware(value) == value.tzinfo # PyNone
make_aware(value, timezone) == [value EXCEPT !.tzinfo = timezone]

\* the parsed value passed on as it is
Aware_unchanged(naive) ==
    IF IsRaise(naive) THEN naive
    ELSE IF naive = PyNone THEN PyRaise("AttributeError")
    ELSE naive

Aware(naive) ==
    IF IsRaise(naive) THEN naive
    ELSE IF naive = PyNone THEN PyRaise("AttributeError")
    ELSE IF ~is_aware(naive) THEN make_aware(naive, utc)
    ELSE naive

\* release: the Django release parse_datetime comes from
id_and_revision_extractor(xml_elt, release) ==
    LET attributes == extract_attributes(xml_elt, At)
        id == IF <<At, "id">> \in DOMAIN attributes THEN attributes[<<At, "id">>] ELSE PyNone
        timestamp == IF <<At, "last-modified">> \in DOMAIN attributes
                     THEN Aware(parse_datetime(attributes[<<At, "last-modified">>].v,
                                               release))
                     ELSE PyNone
    IN  IF IsRaise(timestamp) THEN timestamp
        ELSE ("id" :> id) @@ ("timestamp" :> timestamp)

TzDesignators ==
    {<<>>, <<"Z">>, <<"+", "0", "1">>, <<"+", "0", "1", ":", "0", "0">>,
     <<"-", "0", "5", ":", "3", "0">>, <<"+", "0", "2", "0", "0">>, <<"G", "M", "T">>,
     <<Newline>>, <<"Z", Newline>>, <<"+", "0", "1", ":", "0", "0", Newline>>,
     <<"Z", Newline, Newline>>}

LastModifiedStrings ==
    {[fields |-> f, instant |-> i, tz |-> z] :
        f \in {"ok", "malformed", "out-of-range"}, i \in {1, 2}, z \in TzDesignators}

Elements ==
    {[name |-> n, attrs |-> a @@ b @@ c] :
        n \in {"ioc", "IndicatorItem"},
        a \in OptionalEntry("id", {PyStr("id1"), PyStr("id2")}),
        b \in OptionalEntry("last-modified", {PyStr(s) : s \in LastModifiedStrings}),
        c \in OptionalEntry("condition", {PyStr("contains")})}

IdAndRevisionExtractor ==
    /\ hook = "idle"
    /\ \E xml_elt \in Elements, release \in DjangoReleases :
          /\ hook' = "id_and_revision_extractor"
          /\ arg' = [xml_elt |-> xml_elt, release |-> release]
          /\ ret' = id_and_revision_extractor(xml_elt, release)
    /\ UNCHANGED <<contents_after, add_fact_kargs, identifiers, iobjects, self, importvars>>

----------------------------------------------------------------------------
(* reference_handler and the fact handler list *)

DINGOS_DEFAULT_ID_NAMESPACE_URI == PyStr("DINGOS_DEFAULT_ID_NAMESPACE_URI")

\* MantisImporter.create_iobject(uid, identifier_ns_uri, timestamp) in its
\* effect on the store: the object of that identifier and timestamp is
\* retrieved, or created with its identifier
PlaceholderStore(ids, objs, namespace_uri, uid, timestamp) ==
    [identifiers |-> ids \cup {<<namespace_uri, uid>>},
     iobjects |-> objs \cup {<<namespace_uri, uid, timestamp>>}]

\* Identifier.objects.get(uid=uid, namespace__uri=namespace_uri)
IdentifierGet(ids, namespace_uri, uid) ==
    IF <<namespace_uri, uid>> \in ids
    THEN [t |-> "Identifier", namespace |-> namespace_uri, uid |-> uid]
    ELSE PyRaise("DoesNotExist")

\* a handler that resolves the reference in the default namespace
reference_handler_default_ns(ns, ids, objs, iobject, fact, attr_info, kargs) ==
    LET unchanged == [kargs |-> kargs, identifiers |-> ids, iobjects |-> objs]
    IN  IF "idref" \notin DOMAIN attr_info \/ "@timestamp" \notin DOMAIN attr_info
        THEN [ret |-> PyRaise("KeyError")] @@ unchanged
        ELSE LET uid == attr_info["idref"]
                 store == PlaceholderStore(ids, objs, DINGOS_DEFAULT_ID_NAMESPACE_URI,
                                           uid, attr_info["@timestamp"])
                 identifier == IdentifierGet(store.identifiers,
                                             DINGOS_DEFAULT_ID_NAMESPACE_URI, uid)
             IN  [ret |-> PyBool(TRUE),
                  kargs |-> MapSet(kargs, "value_iobject_id", identifier),
                  identifiers |-> store.identifiers,
                  iobjects |-> store.iobjects]

\* ns is self.identifier_ns_uri, ids and objs the store before the call;
\* returns the value returned, add_fact_kargs and the store after the call
reference_handler(ns, ids, objs, iobject, fact, attr_info, kargs) ==
    LET unchanged == [kargs |-> kargs, identifiers |-> ids, iobjects |-> objs]
    IN  IF "idref" \notin DOMAIN attr_info \/ "@timestamp" \notin DOMAIN attr_info
        THEN [ret |-> PyRaise("KeyError")] @@ unchanged
        ELSE LET namespace_uri == ns
                 uid == attr_info["idref"]
                 timestamp == attr_info["@timestamp"]
                 store == PlaceholderStore(ids, objs, namespace_uri, uid, timestamp)
                 identifier == IdentifierGet(store.identifiers, namespace_uri, uid)
             IN  IF IsRaise(identifier)
                 THEN [ret |-> identifier, kargs |-> kargs,
                       identifiers |-> store.identifiers, iobjects |-> store.iobjects]
                 ELSE [ret |-> PyBool(TRUE),
                       kargs |-> MapSet(kargs, "value_iobject_id", identifier),
                       identifiers |-> store.identifiers,
                       iobjects |-> store.iobjects]

\* the predicate of the only pair: "idref" in attr_info.keys()
IdrefPredicate(fact, attr_info) == "idref" \in DOMAIN attr_info

fact_handler_list ==
    <<[predicate |-> "idref in attr_info.keys()", handler |-> "reference_handler"]>>

\* The generic importer's use of the list for one fact: each pair in order,
\* the handler run when its predicate holds.  ran lists the handlers run.
RECURSIVE RunHandlers(_, _, _, _, _)
RunHandlers(pairs, ns, st, attr_info, ran) ==
    IF pairs = <<>> \/ IsRaise(st.ret) THEN st @@ [ran |-> ran]
    ELSE IF IdrefPredicate(PyNone, attr_info)
         THEN RunHandlers(Tail(pairs), ns,
                          reference_handler(ns, st.identifiers, st.iobjects,
                                            PyNone, PyNone, attr_info, st.kargs),
                          attr_info, Append(ran, Head(pairs).handler))
         ELSE RunHandlers(Tail(pairs), ns, st, attr_info, ran)

RefAttrInfos ==
    {a @@ b @@ c :
        a \in OptionalEntry("idref", {PyStr("id1"), PyStr("id2")}),
        b \in OptionalEntry("@timestamp", {DateTime(1), DateTime(2)}),
        c \in OptionalEntry("@embedded_type_info", {PyStr("FileItem")})}

FactHandlers ==
    /\ hook = "idle"
    /\ \E attr_info \in RefAttrInfos, kargs \in KargsPresets :
          LET r == RunHandlers(fact_handler_list, self.identifier_ns_uri,
                               [ret |-> PyNone, kargs |-> kargs,
                                identifiers |-> identifiers, iobjects |-> iobjects],
                               attr_info, <<>>)
          IN  /\ hook' = "fact_handlers"
              /\ arg' = [attr_info |-> attr_info, add_fact_kargs |-> kargs, ran |-> r.ran,
                         identifiers |-> identifiers, iobjects |-> iobjects]
              /\ ret' = r.ret
              /\ add_fact_kargs' = r.kargs
              /\ identifiers' = r.identifiers
              /\ iobjects' = r.iobjects
    /\ UNCHANGED <<contents_after, self, importvars>>

\* the identifier namespaces an instance can hold: the default, or the one a
\* caller passed to xml_import
IdNamespaces == {DINGOS_DEFAULT_ID_NAMESPACE_URI, PyStr("http://example.com/ids")}

\* stores the handler can meet: empty, or holding the referenced object
Stores ==
    {[identifiers |-> {}, iobjects |-> {}]} \cup
    {[identifiers |-> {<<ns, PyStr("id1")>>}, iobjects |-> {<<ns, PyStr("id1"), DateTime(1)>>}] :
        ns \in IdNamespaces}

----------------------------------------------------------------------------
(* __init__ and xml_import *)

\* A namespace uri is a character string; Uri writes it from the text before
\* the path and the path segments
RECURSIVE JoinPath(_)
JoinPath(path) ==
    IF path = <<>> THEN <<>> ELSE <<Slash>> \o Head(path) \o JoinPath(Tail(path))

Uri(base, path) == PyStr(base \o JoinPath(path))

s_ioc == <<"i", "o", "c">>
s_2010 == <<"2", "0", "1", "0">>
s_unknown == <<"u", "n", "k", "n", "o", "w", "n">>
MandiantBase ==
    <<"h", "t", "t", "p", ":", "/", "/", "s", "c", "h", "e", "m", "a", "s",
      ".", "m", "a", "n", "d", "i", "a", "n", "t", ".", "c", "o", "m">>

\* uris the pattern of line 48 finds a family in although they are not under
\* http://schemas.mandiant.com: a character in the place of a dot, and text
\* in front; and one it finds none in, a newline in the place of a dot
NewlineBase ==
    <<"h", "t", "t", "p", ":", "/", "/", "s", "c", "h", "e", "m", "a", "s",
      Newline, "m", "a", "n", "d", "i", "a", "n", "t", ".", "c", "o", "m">>
OtherDotBase ==
    <<"h", "t", "t", "p", ":", "/", "/", "s", "c", "h", "e", "m", "a", "s",
      "X", "m", "a", "n", "d", "i", "a", "n", "t", ".", "c", "o", "m">>
PrefixedBase ==
    <<"x", "-", "h", "t", "t", "p", ":", "/", "/", "s", "c", "h", "e", "m",
      "a", "s", ".", "m", "a", "n", "d", "i", "a", "n", "t", ".", "c", "o",
      "m">>

DINGOS_NAMESPACE_URI ==
    Uri(<<"h", "t", "t", "p", ":", "/", "/", "d", "i", "n", "g", "o", "s">>, <<>>)
DINGOS_GENERIC_FAMILY_NAME ==
    Uri(<<"D", "I", "N", "G", "O", "S", "_", "G", "E", "N", "E", "R", "I",
          "C", "_", "F", "A", "M", "I", "L", "Y", "_", "N", "A", "M", "E">>, <<>>)
UnknownIocUri == Uri(MandiantBase, <<s_unknown, s_ioc>>)

\* the fields as the body of __init__ assigns them
Constructed(clock) ==
    [toplevel_attrs |-> EmptyMap,
     namespace_dict |-> (PyNone :> DINGOS_NAMESPACE_URI),
     iobject_family_name |-> PyStr(s_ioc),
     iobject_family_revision_name |-> PyStr(<<>>),
     create_timestamp |-> DateTime(clock),
     identifier_ns_uri |-> DINGOS_DEFAULT_ID_NAMESPACE_URI]

\* a re-initialisation that only takes a new create_timestamp
OpenIOC_Import_init_keep(old, clock) ==
    IF old = PyNone THEN Constructed(clock)
    ELSE [old EXCEPT !.create_timestamp = DateTime(clock)]

\* __init__ on the instance old (None at construction): every field is set anew
OpenIOC_Import_init(old, clock) == Constructed(clock)

\* if identifier_ns_uri: self.identifier_ns_uri = identifier_ns_uri
SetIdentifierNs(obj, identifier_ns_uri) ==
    IF Truthy(identifier_ns_uri)
    THEN [obj EXCEPT !.identifier_ns_uri = identifier_ns_uri]
    ELSE obj

\* d.get(k, default)
DictGet(d, k, default) == IF k \in DOMAIN d THEN d[k] ELSE default

\* the text of the pattern up to its first group; the pattern is written
\* without escapes and compiled without DOTALL, so each of its dots stands
\* for any character but a newline
MandiantPrefix == MandiantBase \o <<Slash>>

PatternChar(p, c) == IF p = "." THEN c # Newline ELSE p = c

\* the character classes of the two groups: [0-9] and [^/]
InClass(c, class) == IF class = "[0-9]" THEN IsDigit(c) ELSE c # Slash

\* the last position of the longest run of characters of class from position
\* from on (from - 1 when the run is empty)
RunEnd(text, from, class) ==
    CHOOSE e \in (from - 1)..Len(text) :
        /\ \A i \in from..e : InClass(text[i], class)
        /\ e < Len(text) => ~InClass(text[e + 1], class)

\* the pattern matches text from position i on: the prefix, a non-empty run
\* of digits, a '/', and a non-empty run of characters other than '/'
MatchesAt(text, i) ==
    LET r == i + Len(MandiantPrefix)
        re == RunEnd(text, r, "[0-9]")
    IN  /\ r - 1 <= Len(text)
        /\ \A k \in 1..Len(MandiantPrefix) : PatternChar(MandiantPrefix[k], text[i + k - 1])
        /\ re >= r
        /\ re + 2 <= Len(text)
        /\ text[re + 1] = Slash
        /\ text[re + 2] # Slash

\* RE_LIST_NS_TYPE_FROM_NS_URL[0].search(text).groupdict(), None without match:
\* http://schemas.mandiant.com/(?P<revision>[0-9]+)/(?P<family>[^/]+)
\* search takes the first position of the text the pattern matches from
MandiantMatch(text) ==
    LET starts == {i \in 1..Len(text.v) : MatchesAt(text.v, i)}
    IN  IF starts = {} THEN PyNone
        ELSE LET i == CHOOSE x \in starts : \A y \in starts : x <= y
                 r == i + Len(MandiantPrefix)
                 re == RunEnd(text.v, r, "[0-9]")
                 fe == RunEnd(text.v, re + 2, "[^/]")
             IN  PyDict(("revision" :> PyStr(SubSeq(text.v, r, re)))
                        @@ ("family" :> PyStr(SubSeq(text.v, re + 2, fe))))

\* dingos search_by_re_list over the one pattern of the class
search_by_re_list(re_list, text) == MandiantMatch(text)

\* lines 541-547: the family taken from the namespace of the top-level element
WithFamily(obj, elt_dict) ==
    LET default_ns == DictGet(obj.namespace_dict, Get(elt_dict, "@@ns"), UnknownIocUri)
        family_info_dict == search_by_re_list(<<"RE_LIST_NS_TYPE_FROM_NS_URL">>, default_ns)
    IN  IF family_info_dict # PyNone
        THEN [obj EXCEPT !.iobject_family_name = family_info_dict.d["family"],
                         !.iobject_family_revision_name = family_info_dict.d["revision"]]
        ELSE obj

Triple(r) == <<r.id_and_rev_info, r.elt_name, r.dict_repr>>

\* a stack that leaves out the last embedded object
PendingStack_short(import_result) ==
    <<Triple(import_result)>> \o
    [i \in 1..(Len(import_result.embedded_objects) - 1) |->
        Triple(import_result.embedded_objects[i])]

\* lines 553-560: the top-level result, then the embedded objects in order
PendingStack(import_result) ==
    <<Triple(import_result)>> \o
    [i \in 1..Len(import_result.embedded_objects) |->
        Triple(import_result.embedded_objects[i])]

\* id_and_rev_info as line 562 reads it: the loop over the embedded objects
\* has rebound the name to the last embedded object's record
IdAndRevInfoAfterLoop(import_result) ==
    IF import_result.embedded_objects = <<>>
    THEN import_result.id_and_rev_info
    ELSE import_result.embedded_objects[Len(import_result.embedded_objects)].id_and_rev_info

\* the timestamp taken from the top-level element whatever was embedded
Timestamp_toplevel(obj, import_result) ==
    IF Truthy(import_result.id_and_rev_info["timestamp"])
    THEN import_result.id_and_rev_info["timestamp"]
    ELSE obj.create_timestamp

\* lines 562-565
Timestamp(obj, import_result) ==
    LET id_and_rev_info == IdAndRevInfoAfterLoop(import_result)
    IN  IF Truthy(id_and_rev_info["timestamp"])
        THEN id_and_rev_info["timestamp"]
        ELSE obj.create_timestamp

\* if not markings: markings = []
Markings(markings) == IF Truthy(markings) THEN markings ELSE [t |-> "list", v |-> <<>>]

\* the keyword arguments of the create_iobject call for one stack entry
CreateArgs(obj, identifier_ns_uri, markings, entry, timestamp) ==
    [iobject_family_name |-> obj.iobject_family_name,
     iobject_family_revision_name |-> obj.iobject_family_revision_name,
     iobject_type_name |-> entry[2],
     iobject_type_namespace_uri |->
         DictGet(obj.namespace_dict, Get(entry[3], "@@ns"), DINGOS_GENERIC_FAMILY_NAME),
     iobject_type_revision_name |-> PyStr(""),
     iobject_data |-> entry[3],
     uid |-> entry[1]["id"],
     identifier_ns_uri |-> identifier_ns_uri,
     timestamp |-> timestamp,
     create_timestamp |-> obj.create_timestamp,
     markings |-> markings,
     config_hooks |-> [special_ft_handler |-> fact_handler_list,
                       datatype_extractor |-> "datatype_extractor",
                       attr_ignore_predicate |-> "attr_ignore_predicate"],
     namespace_dict |-> obj.namespace_dict]

\* What the generic importer can return.  Embedded objects are IndicatorItems
\* rewritten by transformer; each has the id the embedding predicate required.
IdAndRevInfos(ids, instants) ==
    {("id" :> i) @@ ("timestamp" :> t) :
        i \in ids, t \in {PyNone} \cup {DateTime(n) : n \in instants}}

EmbeddedObject(ir) ==
    [id_and_rev_info |-> ir,
     elt_name |-> IF ir["id"] = PyStr("id1") THEN PyStr("FileItem") ELSE PyStr("RegistryItem"),
     dict_repr |-> ("@id" :> ir["id"])]

\* two embedded objects: one with a timestamp, one of another id without
EmbeddedKinds ==
    <<EmbeddedObject(("id" :> PyStr("id1")) @@ ("timestamp" :> DateTime(MaxNow))),
      EmbeddedObject(("id" :> PyStr("id2")) @@ ("timestamp" :> PyNone))>>

EmbeddedObjects == {EmbeddedKinds[k] : k \in 1..Len(EmbeddedKinds)}

\* the lists of embedded objects of a document: up to MaxEmbedded of them,
\* starting with either and going on with the two in turn
EmbeddedLists ==
    {[i \in 1..n |-> EmbeddedKinds[((first + i - 2) % Len(EmbeddedKinds)) + 1]] :
        first \in 1..Len(EmbeddedKinds), n \in 0..MaxEmbedded}

ImportResults ==
    {[id_and_rev_info |-> ir, elt_name |-> PyStr("ioc"),
      dict_repr |-> n @@ ("@id" :> ir["id"]),
      embedded_objects |-> es] :
        ir \in IdAndRevInfos({PyStr("ioc-1")}, {1}),
        n \in OptionalEntry("@@ns", {PyStr("ioc")}),
        es \in EmbeddedLists}

\* namespace uris a document can bind to its prefix
DocumentUris ==
    {Uri(MandiantBase, <<s_2010, s_ioc>>),
     Uri(PrefixedBase, <<<<"2", "0", "1", "1">>, <<"t", "r">>>>),
     Uri(OtherDotBase, <<<<"2", "0", "1", "2">>, s_ioc>>),
     Uri(NewlineBase, <<s_2010, <<"t", "r">>>>),
     UnknownIocUri}

\* the namespace bindings of a document: its prefix bound or not
DocumentBindings == OptionalEntry(PyStr("ioc"), DocumentUris)

\* ns_mapping as the generic importer leaves it: the bindings of the
\* document written over the entries it was given
Filled(ns_mapping, bindings) == bindings @@ ns_mapping

IdentifierNsArgs == {PyNone, PyStr(""), PyStr("http://example.com/ids")}
MarkingsArgs == {PyNone, [t |-> "list", v |-> <<"marking1">>]}

\* the arguments of the xml_import calls: markings are given with an
\* identifier namespace and left out without one
CallArgs ==
    {args \in [identifier_ns_uri : IdentifierNsArgs, markings : MarkingsArgs] :
        Truthy(args.identifier_ns_uri) <=> Truthy(args.markings)}

\* the documents imported, by what the generic importer returns for them and
\* the bindings it writes: a top-level element without last-modified under
\* each binding, and documents with a last-modified or with embedded objects
\* under the OpenIOC 2010 binding
Documents ==
    {document \in [import_result : ImportResults, bindings : DocumentBindings] :
        LET r == document.import_result
            b == document.bindings
        IN  \/ /\ r.embedded_objects = <<>>
               /\ r.id_and_rev_info["timestamp"] = PyNone
               /\ "@@ns" \in DOMAIN r.dict_repr \/ b = EmptyMap
            \/ /\ "@@ns" \in DOMAIN r.dict_repr
               /\ b = (PyStr("ioc") :> Uri(MandiantBase, <<s_2010, s_ioc>>))}

\* what the generic importer has written into ns_mapping when it raises:
\* nothing yet, or the binding of the document's prefix
WrittenBindings == {EmptyMap, (PyStr("ioc") :> Uri(MandiantBase, <<s_2010, s_ioc>>))}

\* what timezone.now() reads at a call: any instant, also one before the
\* last reading
Clocks == 1..MaxNow

Summary(c, obj) ==
    [identifier_ns_uri |-> obj.identifier_ns_uri,
     iobject_family_name |-> obj.iobject_family_name]

\* xml_import up to the loop over pending_stack, the generic importer having
\* returned import_result and left ns_mapping filled
XmlImport ==
    /\ pc = "idle"
    /\ ncalls < MaxCalls
    /\ \E args \in CallArgs, clock \in Clocks, document \in Documents :
       LET identifier_ns_uri == args.identifier_ns_uri
           markings == args.markings
           import_result == document.import_result
           bindings == document.bindings
           reset == SetIdentifierNs(OpenIOC_Import_init(self, clock), identifier_ns_uri)
       IN
           LET ns_mapping == Filled(reset.namespace_dict, bindings)
               obj == WithFamily([reset EXCEPT !.namespace_dict = ns_mapping],
                                 import_result.dict_repr)
           IN  /\ now' = clock
               /\ self' = obj
               /\ call' = [identifier_ns_uri |-> identifier_ns_uri,
                           markings |-> Markings(markings),
                           bindings |-> bindings,
                           import_result |-> import_result]
               /\ pending_stack' = PendingStack(import_result)
               /\ ts' = Timestamp(obj, import_result)
               /\ idx' = 1
               /\ calls' = <<>>
               /\ exc' = PyNone
               /\ pc' = "loop"
               /\ ncalls' = ncalls + 1
    /\ UNCHANGED <<hookvars, prev>>

\* xml_import when MantisImporter.xml_import raises; ns_mapping is
\* self.namespace_dict itself (line 526), so the bindings the generic
\* importer has written before it raises stay in the instance
XmlImportRaises ==
    /\ pc = "idle"
    /\ ncalls < MaxCalls
    /\ \E args \in CallArgs, clock \in Clocks, written \in WrittenBindings :
          LET identifier_ns_uri == args.identifier_ns_uri
              markings == args.markings
              reset == SetIdentifierNs(OpenIOC_Import_init(self, clock), identifier_ns_uri)
          IN
          /\ now' = clock
          /\ self' = [reset EXCEPT !.namespace_dict = Filled(reset.namespace_dict, written)]
          /\ call' = [identifier_ns_uri |-> identifier_ns_uri,
                      markings |-> Markings(markings),
                      bindings |-> EmptyMap,
                      import_result |-> PyNone]
          /\ pending_stack' = <<>>
          /\ ts' = PyNone
          /\ idx' = 0
          /\ calls' = <<>>
          /\ exc' = [t |-> "raise", exc |-> "ImportError", at |-> 0]
          /\ pc' = "raised"
          /\ ncalls' = ncalls + 1
    /\ UNCHANGED <<hookvars, prev>>

\* a failed create_iobject call is passed over and the loop goes on
CreateIObjectRaises_swallowed ==
    /\ pc = "loop"
    /\ calls' = Append(calls, CreateArgs(self, call.identifier_ns_uri, call.markings,
                                         pending_stack[idx], ts))
    /\ exc' = [t |-> "raise", exc |-> "CreateError", at |-> idx]
    /\ idx' = idx + 1
    /\ pc' = IF idx = Len(pending_stack) THEN "done" ELSE "loop"
    /\ UNCHANGED <<hookvars, self, now, call, pending_stack, ts, ncalls, prev>>

\* one turn of the loop, the create_iobject call returning: the object of
\* the identifier and timestamp it was given is in the store
CreateIObject ==
    /\ pc = "loop"
    /\ LET kwargs == CreateArgs(self, call.identifier_ns_uri, call.markings,
                                pending_stack[idx], ts)
           st == PlaceholderStore(identifiers, iobjects, kwargs.identifier_ns_uri,
                                  kwargs.uid, kwargs.timestamp)
       IN  /\ calls' = Append(calls, kwargs)
           /\ identifiers' = st.identifiers
           /\ iobjects' = st.iobjects
    /\ idx' = idx + 1
    /\ pc' = IF idx = Len(pending_stack) THEN "done" ELSE "loop"
    /\ UNCHANGED <<hook, arg, ret, contents_after, add_fact_kargs, self, now, call,
                   pending_stack, ts, exc, ncalls, prev>>

\* one turn of the loop, the create_iobject call raising
CreateIObjectRaises ==
    /\ pc = "loop"
    /\ calls' = Append(calls, CreateArgs(self, call.identifier_ns_uri, call.markings,
                                         pending_stack[idx], ts))
    /\ exc' = [t |-> "raise", exc |-> "CreateError", at |-> idx]
    /\ pc' = "raised"
    /\ UNCHANGED <<hookvars, self, now, call, pending_stack, idx, ts, ncalls, prev>>

\* xml_import has returned or raised: its locals are gone, the instance stays
Return ==
    /\ pc \in {"done", "raised"}
    /\ pc' = "idle"
    /\ prev' = Summary(call, self)
    /\ call' = PyNone
    /\ pending_stack' = <<>>
    /\ idx' = 0
    /\ ts' = PyNone
    /\ calls' = <<>>
    /\ exc' = PyNone
    /\ UNCHANGED <<hookvars, self, now, ncalls>>

----------------------------------------------------------------------------

ImportIdle ==
    /\ now = 1
    /\ pc = "idle"
    /\ call = PyNone
    /\ pending_stack = <<>>
    /\ idx = 0
    /\ ts = PyNone
    /\ calls = <<>>
    /\ exc = PyNone
    /\ ncalls = 0
    /\ prev = PyNone

HooksIdle ==
    /\ hook = "idle"
    /\ arg = PyNone
    /\ ret = PyNone
    /\ contents_after = PyNone
    /\ add_fact_kargs = EmptyMap

\* a hook is applied to an instance as constructed or as an xml_import call
\* has configured it, over a store that holds the referenced object or not
Init ==
    /\ HooksIdle
    /\ ImportIdle
    /\ self \in {SetIdentifierNs(OpenIOC_Import_init(PyNone, 1), ns) : ns \in IdNamespaces}
    /\ \E st \in Stores : identifiers = st.identifiers /\ iobjects = st.iobjects

Next ==
    \/ Transformer
    \/ CyboxEmbeddingPred
    \/ AttrIgnorePredicate
    \/ DatatypeExtractor
    \/ IdAndRevisionExtractor
    \/ FactHandlers

Spec == Init /\ [][Next]_vars

\* the instance as constructed
InitImport ==
    /\ HooksIdle
    /\ ImportIdle
    /\ self = OpenIOC_Import_init(PyNone, 1)
    /\ identifiers = {}
    /\ iobjects = {}

NextImport ==
    \/ XmlImport
    \/ XmlImportRaises
    \/ CreateIObject
    \/ CreateIObjectRaises
    \/ Return

SpecImport == InitImport /\ [][NextImport]_vars

----------------------------------------------------------------------------
(* Claims about the hooks, checked under Spec *)

\* positions of the separators of a path, and its segments by position
SlashPos(s) == {i \in 1..Len(s) : s[i] = Slash}
NSegments(s) == Cardinality(SlashPos(s)) + 1
KthSlash(s, k) ==
    IF k = 0 THEN 0
    ELSE IF k > Cardinality(SlashPos(s)) THEN Len(s) + 1
    ELSE CHOOSE i \in SlashPos(s) : Cardinality({j \in SlashPos(s) : j < i}) = k - 1
Segment(s, k) == SubSeq(s, KthSlash(s, k - 1) + 1, KthSlash(s, k) - 1)

\* the value reached from node by following keys; every dictionary passed
\* on the way below the first holds the followed key only
RECURSIVE Follow(_, _, _)
Follow(node, keys, top) ==
    IF keys = <<>> THEN node
    ELSE IF node.t # "dict" \/ Head(keys) \notin DOMAIN node.d THEN PyNone
    ELSE IF ~top /\ DOMAIN node.d # {Head(keys)} THEN PyNone
    ELSE Follow(node.d[Head(keys)], Tail(keys), FALSE)

TransformedItem ==
    /\ hook = "transformer"
    /\ arg.elt_name = "IndicatorItem"

CompleteItem ==
    /\ TransformedItem
    /\ DOMAIN arg.contents = {"Context", "Content", "@condition", "@id"}
    /\ "@search" \in DOMAIN arg.contents["Context"]
    /\ DOMAIN arg.contents["Content"] = {"_value", "@type"}

SearchOfArg == arg.contents["Context"]["@search"].v

\* what C1 says of the result for the complete item in arg
PathBuilt ==
    LET s == SearchOfArg
        n == NSegments(s)
        path == [k \in 1..(n - 1) |-> Segment(s, k + 1)]
        leaf == Follow(ret.record, path, TRUE)
    IN  /\ ret.t = "pair"
        /\ ret.name = PyStr(Segment(s, 1))
        /\ ret.record.t = "dict"
        /\ DOMAIN ret.record.d = {AtId, path[1]}
        /\ ret.record.d[AtId] = arg.contents["@id"]
        /\ leaf.t = "dict"
        /\ DOMAIN leaf.d = {AtValueType, AtCondition, UValue}
        /\ leaf.d[AtValueType] = arg.contents["Content"]["@type"]
        /\ leaf.d[AtCondition] = arg.contents["@condition"]
        /\ leaf.d[UValue] = arg.contents["Content"]["_value"]

\* C1 as stated: transformer on an IndicatorItem with search path A/B/.../D,
\* value v, type t, condition c and id i returns (A, record) where
\* record['@id'] = i, following B, ..., D from record reaches exactly the leaf
\* {'@value_type': t, '@condition': c, '_value': v}, and record has no
\* top-level keys other than '@id' and B.
C1_Original ==
    (CompleteItem /\ NSegments(SearchOfArg) >= 2) => PathBuilt

\* C1 (amended): the same, for every search path whose segment B is not the
\* reserved key '@id'.
C1_TransformerBuildsPath ==
    (CompleteItem /\ NSegments(SearchOfArg) >= 2 /\ Segment(SearchOfArg, 2) # AtId)
        => PathBuilt

\* a four-segment path A/B/C/D with pairwise different B, C, D was transformed
C1_Witness ==
    /\ CompleteItem
    /\ NSegments(SearchOfArg) = 4
    /\ \A k \in 1..4 : Segment(SearchOfArg, k) # <<>>
    /\ Segment(SearchOfArg, 2) # Segment(SearchOfArg, 3)
    /\ Segment(SearchOfArg, 3) # Segment(SearchOfArg, 4)
    /\ ret.t = "pair"

FirstContextIndex(children) ==
    IF \E i \in 1..Len(children) : children[i].name = "Context"
    THEN CHOOSE i \in 1..Len(children) :
            /\ children[i].name = "Context"
            /\ \A j \in 1..(i - 1) : children[j].name # "Context"
    ELSE 0

Qualifies(child) == child.name = "IndicatorItem" /\ "id" \in DOMAIN child.attrs

\* C2 as stated: False for a child that is no IndicatorItem or has no id;
\* otherwise the 'document' attribute value of the first Context child when
\* that attribute is present, else True.
C2_Original ==
    hook = "cybox_embedding_pred" =>
        LET child == arg.child
            i == FirstContextIndex(child.children)
        IN  IF ~Qualifies(child) THEN ret = PyBool(FALSE)
            ELSE IF i # 0 /\ "document" \in DOMAIN child.children[i].attrs
                 THEN ret = child.children[i].attrs["document"]
                 ELSE ret = PyBool(TRUE)

\* C2 (amended): as C2, except that the 'document' attribute value of the
\* first Context child is returned only when it is present and non-empty; a
\* present but empty 'document' yields True.
C2_EmbeddingClassifier ==
    hook = "cybox_embedding_pred" =>
        LET child == arg.child
            i == FirstContextIndex(child.children)
        IN  IF ~Qualifies(child) THEN ret = PyBool(FALSE)
            ELSE IF /\ i # 0
                    /\ "document" \in DOMAIN child.children[i].attrs
                    /\ child.children[i].attrs["document"].v # ""
                 THEN ret = child.children[i].attrs["document"]
                 ELSE ret = PyBool(TRUE)

\* a qualifying IndicatorItem with two Context children naming different
\* documents was classified by the first
C2_Witness ==
    /\ hook = "cybox_embedding_pred"
    /\ Qualifies(arg.child)
    /\ \E i, j \in 1..Len(arg.child.children) :
          /\ i < j
          /\ i = FirstContextIndex(arg.child.children)
          /\ arg.child.children[j].name = "Context"
          /\ "document" \in DOMAIN arg.child.children[i].attrs
          /\ "document" \in DOMAIN arg.child.children[j].attrs
          /\ arg.child.children[j].attrs["document"].v # ""
          /\ arg.child.children[i].attrs["document"] # arg.child.children[j].attrs["document"]
          /\ ret = arg.child.children[i].attrs["document"]

\* C3 as stated: attr_ignore_predicate returns True exactly for the keys
\* 'idref', 'id', 'value_type' and the keys that start with '@', and False
\* for every other key.
C3_Original ==
    hook = "attr_ignore_predicate" =>
        LET key == arg.fact_dict.attribute
        IN  ret = PyBool(\/ key \in {s_idref, s_id, s_value_type}
                         \/ (Len(key) > 0 /\ key[1] = At))

\* add_fact_kargs after the call is pre with exactly the entries of new set
KargsAre(pre, new) ==
    /\ DOMAIN add_fact_kargs = DOMAIN pre \cup DOMAIN new
    /\ \A k \in DOMAIN new : add_fact_kargs[k] = new[k]
    /\ \A k \in DOMAIN pre \ DOMAIN new : add_fact_kargs[k] = pre[k]

DefaultNsOfArg == arg.namespace_mapping[PyNone]

\* C4 as stated: with 'idref' present datatype_extractor returns True and
\* sets fact_dt_name to the '@embedded_type_info' marker, fact_dt_namespace_uri
\* to the default namespace and fact_dt_kind to REFERENCE; else with
\* 'value_type' present it returns True and sets fact_dt_name to that value
\* and fact_dt_namespace_uri to the default namespace; otherwise it returns
\* False and leaves add_fact_kargs unchanged.
C4_Original ==
    hook = "datatype_extractor" =>
        LET ai == arg.attr_info
            pre == arg.add_fact_kargs
        IN  IF "idref" \in DOMAIN ai
            THEN /\ ret = PyBool(TRUE)
                 /\ KargsAre(pre, ("fact_dt_name" :> Get(ai, "@embedded_type_info"))
                                  @@ ("fact_dt_namespace_uri" :> DefaultNsOfArg)
                                  @@ ("fact_dt_kind" :> REFERENCE))
            ELSE IF "value_type" \in DOMAIN ai
            THEN /\ ret = PyBool(TRUE)
                 /\ KargsAre(pre, ("fact_dt_name" :> ai["value_type"])
                                  @@ ("fact_dt_namespace_uri" :> DefaultNsOfArg))
            ELSE ret = PyBool(FALSE) /\ KargsAre(pre, EmptyMap)

\* C4 (amended): with 'idref' present datatype_extractor returns True, and
\* sets fact_dt_name, fact_dt_namespace_uri and fact_dt_kind as stated only
\* when a non-empty '@embedded_type_info' marker is attached; without one it
\* returns True and leaves add_fact_kargs unchanged.  The 'value_type' and
\* the remaining case are as stated, and 'idref' takes precedence.
C4_DatatypeExtractor ==
    hook = "datatype_extractor" =>
        LET ai == arg.attr_info
            pre == arg.add_fact_kargs
        IN  IF "idref" \in DOMAIN ai
            THEN /\ ret = PyBool(TRUE)
                 /\ IF "@embedded_type_info" \in DOMAIN ai /\ ai["@embedded_type_info"].v # ""
                    THEN KargsAre(pre, ("fact_dt_name" :> ai["@embedded_type_info"])
                                       @@ ("fact_dt_namespace_uri" :> DefaultNsOfArg)
                                       @@ ("fact_dt_kind" :> REFERENCE))
                    ELSE KargsAre(pre, EmptyMap)
            ELSE IF "value_type" \in DOMAIN ai
            THEN /\ ret = PyBool(TRUE)
                 /\ KargsAre(pre, ("fact_dt_name" :> ai["value_type"])
                                  @@ ("fact_dt_namespace_uri" :> DefaultNsOfArg))
            ELSE ret = PyBool(FALSE) /\ KargsAre(pre, EmptyMap)

\* 'idref', a marker and 'value_type' were all present, the marker differs
\* from the value type, and the extractor made the fact a reference
C4_Witness ==
    /\ hook = "datatype_extractor"
    /\ {"idref", "value_type", "@embedded_type_info"} \subseteq DOMAIN arg.attr_info
    /\ arg.attr_info["@embedded_type_info"] # arg.attr_info["value_type"]
    /\ arg.attr_info["@embedded_type_info"].v # ""
    /\ add_fact_kargs["fact_dt_kind"] = REFERENCE
    /\ add_fact_kargs["fact_dt_name"] # arg.add_fact_kargs["fact_dt_name"]
    /\ add_fact_kargs["fact_dt_namespace_uri"] # arg.add_fact_kargs["fact_dt_namespace_uri"]

\* the designators every datetime pattern accepts, with their offset in
\* minutes; the ones that name no timezone; the one only the pattern of
\* Django 1.8 and later accepts
OffsetTable ==
    (<<"Z">> :> 0) @@ (<<"+", "0", "1", ":", "0", "0">> :> 60)
    @@ (<<"-", "0", "5", ":", "3", "0">> :> (0 - 330))
    @@ (<<"+", "0", "2", "0", "0">> :> 120)
    @@ (<<"Z", Newline>> :> 0) @@ (<<"+", "0", "1", ":", "0", "0", Newline>> :> 60)
NoTimezone == {<<>>, <<Newline>>}
HoursOnlyTable == (<<"+", "0", "1">> :> 60)

NamesTimezone(tz, release) ==
    tz \in DOMAIN OffsetTable \/ (release = "1.8" /\ tz \in DOMAIN HoursOnlyTable)

ExpectedOffset(tz, release) ==
    IF tz \in DOMAIN OffsetTable THEN OffsetTable[tz] ELSE HoursOnlyTable[tz]

\* C5: id_and_revision_extractor returns a record with exactly the keys 'id'
\* and 'timestamp'; 'id' is the id attribute or None; 'timestamp' is None
\* when last-modified is absent, the parsed value with UTC attached when it
\* names no timezone, and the parsed value unchanged when it names one; a
\* malformed last-modified raises an error instead of yielding a record.
\* Which strings are well-formed is for the Django release to say: hours
\* without minutes name a timezone from 1.8 on and are malformed before.
C5_IdAndRevision ==
    hook = "id_and_revision_extractor" =>
        LET a == arg.xml_elt.attrs
            lm == a["last-modified"].v
            record == /\ DOMAIN ret = {"id", "timestamp"}
                      /\ ret["id"] = IF "id" \in DOMAIN a THEN a["id"] ELSE PyNone
        IN  IF "last-modified" \notin DOMAIN a
            THEN record /\ ret["timestamp"] = PyNone
            ELSE IF lm.fields = "ok" /\ lm.tz \in NoTimezone
            THEN /\ record
                 /\ ret["timestamp"] = [t |-> "datetime", instant |-> lm.instant,
                                        tzinfo |-> [t |-> "tzinfo", offset |-> 0]]
            ELSE IF lm.fields = "ok" /\ NamesTimezone(lm.tz, arg.release)
            THEN /\ record
                 /\ ret["timestamp"] = [t |-> "datetime", instant |-> lm.instant,
                                        tzinfo |-> [t |-> "tzinfo",
                                                    offset |-> ExpectedOffset(lm.tz,
                                                                              arg.release)]]
            ELSE DOMAIN ret = {"t", "exc"} /\ ret.t = "raise"

\* an element with an id and a well-formed last-modified that names no
\* timezone was given a UTC timestamp
C5_Witness ==
    /\ hook = "id_and_revision_extractor"
    /\ {"id", "last-modified"} \subseteq DOMAIN arg.xml_elt.attrs
    /\ arg.xml_elt.attrs["last-modified"].v.fields = "ok"
    /\ arg.xml_elt.attrs["last-modified"].v.tz = <<>>
    /\ DOMAIN ret = {"id", "timestamp"}
    /\ ret["timestamp"].tzinfo = utc

\* C6: the fact handler list holds exactly one (predicate, handler) pair, run
\* exactly for facts whose attribute set contains 'idref'; reference_handler
\* resolves or creates the object keyed by (self.identifier_ns_uri,
\* attr_info['idref'], attr_info['@timestamp']), sets
\* add_fact_kargs['value_iobject_id'] to the identifier of that namespace and
\* uid, leaves every other key unchanged, and returns True, never False.
C6_ReferenceHandler ==
    hook = "fact_handlers" =>
        LET ai == arg.attr_info
        IN  /\ Len(fact_handler_list) = 1
            /\ arg.ran = IF "idref" \in DOMAIN ai THEN <<"reference_handler">> ELSE <<>>
            /\ arg.ran # <<>> => ret # PyBool(FALSE)
            /\ arg.ran = <<>> =>
                  /\ KargsAre(arg.add_fact_kargs, EmptyMap)
                  /\ identifiers = arg.identifiers /\ iobjects = arg.iobjects
            /\ {"idref", "@timestamp"} \subseteq DOMAIN ai =>
                  /\ ret = PyBool(TRUE)
                  /\ KargsAre(arg.add_fact_kargs,
                              "value_iobject_id" :>
                                  [t |-> "Identifier", namespace |-> self.identifier_ns_uri,
                                   uid |-> ai["idref"]])
                  /\ <<self.identifier_ns_uri, ai["idref"], ai["@timestamp"]>> \in iobjects
                  /\ <<self.identifier_ns_uri, ai["idref"]>> \in identifiers
                  /\ arg.iobjects \subseteq iobjects

\* with a non-default identifier namespace, a reference to an object the
\* store did not hold was handled: a placeholder was created for it
C6_Witness ==
    /\ hook = "fact_handlers"
    /\ self.identifier_ns_uri # DINGOS_DEFAULT_ID_NAMESPACE_URI
    /\ arg.ran = <<"reference_handler">>
    /\ ret = PyBool(TRUE)
    /\ "value_iobject_id" \in DOMAIN add_fact_kargs
    /\ iobjects # arg.iobjects

\* C11: transformer returns the pair (elt_name, contents) it was given for
\* every element not named 'IndicatorItem', and whatever the element's name,
\* and whether it returns or raises, the contents dictionary it was handed
\* holds after the call what it held before.
C11_TransformerFrame ==
    hook = "transformer" =>
        /\ contents_after = arg.contents
        /\ arg.elt_name # "IndicatorItem" =>
              /\ ret.t = "pair"
              /\ ret.name = PyStr(arg.elt_name)
              /\ ret.record = arg.contents

\* a complete IndicatorItem was rewritten into a record over a two-key path
C11_Witness ==
    /\ CompleteItem
    /\ NSegments(SearchOfArg) = 3
    /\ \A k \in 1..3 : Segment(SearchOfArg, k) # <<>>
    /\ ret.t = "pair"
    /\ ret.record.d # arg.contents
    /\ contents_after = arg.contents

\* an IndicatorItem handed to transformer with Context.@search,
\* Content._value, Content.@type and @condition, and nothing else but
\* possibly its own '@id'
StructuredItem ==
    /\ TransformedItem
    /\ {"Context", "Content", "@condition"} \subseteq DOMAIN arg.contents
    /\ DOMAIN arg.contents \subseteq {"Context", "Content", "@condition", "@id"}
    /\ "@search" \in DOMAIN arg.contents["Context"]
    /\ DOMAIN arg.contents["Content"] = {"_value", "@type"}

\* C12 as stated: on an IndicatorItem that has Context and Content with all
\* their sub-attributes but no 'id' of its own, id_and_revision_extractor
\* returns a record whose 'id' is None, cybox_embedding_pred returns False,
\* and transformer returns a (name, record) pair instead of raising.
C12_Original ==
    /\ (/\ hook = "id_and_revision_extractor"
        /\ arg.xml_elt.name = "IndicatorItem"
        /\ "id" \notin DOMAIN arg.xml_elt.attrs
        /\ "last-modified" \notin DOMAIN arg.xml_elt.attrs)
          => (DOMAIN ret = {"id", "timestamp"} /\ ret["id"] = PyNone)
    /\ (/\ hook = "cybox_embedding_pred"
        /\ arg.child.name = "IndicatorItem"
        /\ "id" \notin DOMAIN arg.child.attrs)
          => ret = PyBool(FALSE)
    /\ (/\ StructuredItem
        /\ "@id" \notin DOMAIN arg.contents
        /\ NSegments(SearchOfArg) >= 2)
          => ret.t = "pair"

\* C13 as stated: on an IndicatorItem whose Context.@search, Content._value,
\* Content.@type, @condition and @id are all present, transformer returns a
\* (document_type, record) pair whatever the search path is, a path without
\* any '/' included.
C13_Original ==
    CompleteItem => ret.t = "pair"

----------------------------------------------------------------------------
(* Claims about xml_import, checked under SpecImport *)

InCall == pc \in {"loop", "done", "raised"}
Returned == call.import_result # PyNone

\* the results of the generic importer in the order it returned them
ResultAt(k) ==
    IF k = 1 THEN call.import_result ELSE call.import_result.embedded_objects[k - 1]
NResults == Len(call.import_result.embedded_objects) + 1

\* C7: a successful xml_import call whose import result holds n embedded
\* objects makes exactly n+1 create_iobject calls, the first for the
\* top-level element, then one for each embedded object in the order
\* returned; each call carries that result's element name as type name, its
\* dictionary as data and its extracted id as uid.
C7_OneCallPerResult ==
    /\ (InCall /\ Returned) =>
          /\ Len(calls) <= NResults
          /\ \A k \in 1..Len(calls) :
                /\ calls[k].iobject_type_name = ResultAt(k).elt_name
                /\ calls[k].iobject_data = ResultAt(k).dict_repr
                /\ calls[k].uid = ResultAt(k).id_and_rev_info["id"]
    /\ pc = "done" => Len(calls) = NResults

\* an import with two different embedded objects has completed
C7_Witness ==
    /\ pc = "done"
    /\ NResults = 3
    /\ ResultAt(2).id_and_rev_info["id"] # ResultAt(3).id_and_rev_info["id"]
    /\ Len(calls) = 3

Later(a, b) == IF a.instant >= b.instant THEN a ELSE b

\* every call made so far has the timestamp t and the create_timestamp c
AllCallsHave(t, c) ==
    \A k \in 1..Len(calls) : calls[k].timestamp = t /\ calls[k].create_timestamp = c

\* C8 as stated: within one xml_import call every create_iobject call
\* receives the same timestamp and the same create_timestamp, and the shared
\* timestamp is the latest of the extracted timestamp and the create_timestamp
\* taken at reset (whichever result's extracted timestamp is meant).
C8_Original ==
    (InCall /\ Returned /\ calls # <<>>) =>
        \E k \in 1..NResults :
            LET extracted == ResultAt(k).id_and_rev_info["timestamp"]
            IN  AllCallsHave(IF extracted = PyNone THEN DateTime(now)
                             ELSE Later(extracted, DateTime(now)),
                             DateTime(now))

\* C8 (amended): within one xml_import call every create_iobject call
\* receives the same timestamp and the same create_timestamp (the one taken
\* at reset); the shared timestamp is the extracted timestamp of the last
\* result the generic importer returned (the last embedded object, or the
\* top-level element when nothing is embedded) when that result has one, and
\* the create_timestamp otherwise; it is not compared with the clock.
C8_SharedTimestamp ==
    (InCall /\ Returned /\ calls # <<>>) =>
        LET extracted == ResultAt(NResults).id_and_rev_info["timestamp"]
        IN  /\ self.create_timestamp = DateTime(now)
            /\ AllCallsHave(IF extracted = PyNone THEN DateTime(now) ELSE extracted,
                            DateTime(now))

\* an import whose top-level element has a last-modified older than the
\* clock and whose last embedded object has none has made all its calls
C8_Witness ==
    /\ pc = "done"
    /\ NResults = 3
    /\ ResultAt(1).id_and_rev_info["timestamp"] # PyNone
    /\ ResultAt(1).id_and_rev_info["timestamp"].instant < now
    /\ ResultAt(2).id_and_rev_info["timestamp"] # PyNone
    /\ ResultAt(3).id_and_rev_info["timestamp"] = PyNone
    /\ AllCallsHave(DateTime(now), DateTime(now))

\* family and revision by namespace uri, for the uris a document can bind
FamilyTable(uri) ==
    IF uri = Uri(MandiantBase, <<s_2010, s_ioc>>)
    THEN <<PyStr(s_ioc), PyStr(s_2010)>>
    ELSE IF uri = Uri(PrefixedBase, <<<<"2", "0", "1", "1">>, <<"t", "r">>>>)
    THEN <<PyStr(<<"t", "r">>), PyStr(<<"2", "0", "1", "1">>)>>
    ELSE IF uri = Uri(OtherDotBase, <<<<"2", "0", "1", "2">>, s_ioc>>)
    THEN <<PyStr(s_ioc), PyStr(<<"2", "0", "1", "2">>)>>
    ELSE <<PyStr(s_ioc), PyStr(<<>>)>>

\* the namespace uri of the top-level element, from what this call was given
OwnNamespace ==
    LET d == call.import_result.dict_repr
    IN  IF "@@ns" \notin DOMAIN d THEN DINGOS_NAMESPACE_URI
        ELSE IF d["@@ns"] \in DOMAIN call.bindings THEN call.bindings[d["@@ns"]]
        ELSE UnknownIocUri

OwnIdentifierNs ==
    IF call.identifier_ns_uri \in {PyNone, PyStr("")}
    THEN DINGOS_DEFAULT_ID_NAMESPACE_URI
    ELSE call.identifier_ns_uri

\* C9: each xml_import call starts from the re-initialized configuration: the
\* identifier namespace, family name and family revision name it uses, in
\* the instance and in its create_iobject arguments, depend only on its own
\* arguments and input, never on an earlier call.
C9_CallsAreIndependent ==
    InCall =>
        /\ self.identifier_ns_uri = OwnIdentifierNs
        /\ self.create_timestamp = DateTime(now)
        /\ Returned =>
              /\ self.iobject_family_name = FamilyTable(OwnNamespace)[1]
              /\ self.iobject_family_revision_name = FamilyTable(OwnNamespace)[2]
              /\ self.namespace_dict = call.bindings @@ (PyNone :> DINGOS_NAMESPACE_URI)
              /\ \A k \in 1..Len(calls) :
                    /\ calls[k].identifier_ns_uri = call.identifier_ns_uri
                    /\ calls[k].iobject_family_name = FamilyTable(OwnNamespace)[1]
                    /\ calls[k].iobject_family_revision_name = FamilyTable(OwnNamespace)[2]

\* after a call that was given an identifier namespace and extracted the
\* family 'tr', a call given None whose namespace matches no family pattern
\* has completed with the default identifier namespace and family 'ioc'
C9_Witness ==
    /\ pc = "done"
    /\ prev # PyNone
    /\ prev.identifier_ns_uri = PyStr("http://example.com/ids")
    /\ prev.iobject_family_name = PyStr(<<"t", "r">>)
    /\ call.identifier_ns_uri = PyNone
    /\ OwnNamespace = UnknownIocUri
    /\ self.identifier_ns_uri = DINGOS_DEFAULT_ID_NAMESPACE_URI
    /\ self.iobject_family_name = PyStr(s_ioc)
    /\ self.iobject_family_revision_name = PyStr(<<>>)
    /\ calls # <<>>

\* C10: a failure of the external importer aborts the xml_import call at
\* once: when MantisImporter.xml_import fails no create_iobject call is made;
\* when the k-th create_iobject call fails no later one is made and the
\* failure reaches the caller; no failed step is retried or caught.
C10_FailureAborts ==
    /\ exc # PyNone =>
          /\ pc = "raised"
          /\ Len(calls) = exc.at
    /\ pc = "raised" => exc # PyNone
    /\ pc = "loop" => Len(calls) = idx - 1
    /\ (InCall /\ Returned) =>
          \A k \in 1..Len(calls) : calls[k].iobject_data = pending_stack[k][3]

\* the first of three create_iobject calls has failed
C10_Witness ==
    /\ pc = "raised"
    /\ exc.at = 1
    /\ Len(pending_stack) = 3
    /\ Len(calls) = 1

\* C14 as stated: within one xml_import call, whatever identifier_ns_uri
\* argument it was given (None included), every create_iobject call it makes
\* carries as identifier namespace the one reference_handler resolves
\* references in, self.identifier_ns_uri.
C14_Original ==
    InCall => \A k \in 1..Len(calls) : calls[k].identifier_ns_uri = self.identifier_ns_uri

====
